---- MODULE Spec2Model ----
(***************************************************************************)
(* Attachment archiving service (src/gaussReconstruction/111.py).          *)
(*                                                                         *)
(* One run of handle_single_task: working directory purge, browser         *)
(* construction, navigation, title extraction, strategy A (iframe popups   *)
(* with the direct-href / new-window / trace / container chain), strategy  *)
(* B (direct links), extraction and upload, and the except/finally         *)
(* teardown.  The browser, the page and the network are the environment:   *)
(* every call into them may succeed or raise, and windows and responses    *)
(* caused by a click arrive asynchronously.                                *)
(***************************************************************************)
EXTENDS Integers, Sequences, FiniteSets, TLC

(* ---------------------------------------------------------------------- *)
(* Bounds of the model                                                     *)
(* ---------------------------------------------------------------------- *)
MaxFrames == 2
MaxWin == 2
MaxLinks == 2
MaxInner == 1
MaxTotalCands == 2
MaxDepth == 2
MaxTasks == 2

(* ---------------------------------------------------------------------- *)
(* Program constants                                                       *)
(* ---------------------------------------------------------------------- *)
PERF_POLL_ITER == 6

ATTACH_EXTS == {".pdf", ".doc", ".docx", ".xls", ".xlsx", ".zip", ".rar", ".txt"}

(* ---------------------------------------------------------------------- *)
(* Values                                                                  *)
(* ---------------------------------------------------------------------- *)
None == <<>>
Some(x) == <<x>>
The(o) == o[1]

\* A URL is scheme + host + last path component (stem, extension).
FileUrls ==
    { [scheme |-> "http", host |-> "files", stem |-> "a", ext |-> ".pdf"],
      [scheme |-> "http", host |-> "site",  stem |-> "a", ext |-> ".pdf"],
      [scheme |-> "http", host |-> "site",  stem |-> "x", ext |-> ".zip"],
      [scheme |-> "http", host |-> "site",  stem |-> "x", ext |-> ".rar"] }

PageUrls == { [scheme |-> "http", host |-> "site", stem |-> "view", ext |-> ".aspx"] }

Urls == FileUrls \cup PageUrls

\* href attributes a candidate may carry, besides none at all.
Hrefs ==
    { [scheme |-> "http", host |-> "files", stem |-> "a", ext |-> ".pdf"],
      [scheme |-> "http", host |-> "site",  stem |-> "x", ext |-> ".zip"],
      [scheme |-> "http", host |-> "site",  stem |-> "x", ext |-> ".rar"],
      [scheme |-> "javascript", host |-> "", stem |-> "void(0)", ext |-> ""] }

\* URLs a spawned window may show.
WinUrls == { [scheme |-> "http", host |-> "files", stem |-> "a", ext |-> ".pdf"] }
               \cup PageUrls

\* Strings a response body may hold: absolute URLs (a file, a handler page
\* without extension, the download host), a bare file name, plain text.
BodyStrings ==
    { [scheme |-> "http", host |-> "files", stem |-> "a", ext |-> ".pdf"],
      [scheme |-> "http", host |-> "site", stem |-> "get", ext |-> ""],
      [scheme |-> "http", host |-> "down.bidcenter", stem |-> "f", ext |-> ""],
      [scheme |-> "", host |-> "", stem |-> "a", ext |-> ".pdf"],
      [scheme |-> "", host |-> "", stem |-> "ok", ext |-> ""] }

\* Parsed JSON: a string, or an object with its fields in document order.
NoStr == [scheme |-> "", host |-> "", stem |-> "", ext |-> ""]

Str(u) == [t |-> "str", s |-> u, kids |-> <<>>]

Dict(kids) == [t |-> "dict", s |-> NoStr, kids |-> kids]

Field(k, v) == [k |-> k, v |-> v]

\* The body {"result": {"urlhref": "http://files/a.pdf"}} of the validation
\* request, received from the handler page.
ValidateResponse ==
    [ url |-> [scheme |-> "http", host |-> "site", stem |-> "get", ext |-> ""],
      body |-> Dict(<<Field("result", Dict(<<Field("urlhref",
                 Str([scheme |-> "http", host |-> "files", stem |-> "a",
                      ext |-> ".pdf"]))>>))>>) ]

\* Responses the page receives during a task.
Responses == {ValidateResponse}

\* Links a validated click may write into the target container.
ContainerUrls == { [scheme |-> "http", host |-> "site", stem |-> "x", ext |-> ".zip"] }

startswith_http(u) == u.scheme = "http"

MainWin == 0
WinIds == 0..MaxWin
TopFrame == 0

looks_like_attachment(u) == u.ext \in ATTACH_EXTS

derive_filename_from_url(u) == [stem |-> u.stem, ext |-> u.ext]

\* download_with_session: the path written on success, None on any failure.
DownloadAlwaysPath(url, ok) == Some(derive_filename_from_url(url))

download_with_session(url, ok) ==
    IF ok THEN Some(derive_filename_from_url(url)) ELSE None

VARIABLES
    pc,           \* control location inside handle_single_task
    status,       \* status of the returned result, "none" before the return
    failure,      \* the step whose exception reached the except of line 671
    workDir,      \* file names present in the task's working directory
    browserAlive, \* a browser process started for the task is running
    driver,       \* the local variable driver of handle_single_task is set
    wins,         \* spawned windows: id -> Some([owner]) or None; owner is
                  \* "cur" for a window opened by the click of the current
                  \* candidate and "old" for any other
    nextWin,      \* next window handle to hand out
    focusWin,     \* window the session is focused on
    focusFrame,   \* frame the session is focused on (TopFrame = default content)
    baseHandles,  \* base_handles of the iframe being scanned
    pendingWins,  \* windows page script will still open
    traceBuf,     \* performance-log entries not yet read
    pendingResp,  \* responses still in flight
    nFrames, fi,  \* iframes found, index of the current one
    budget,       \* candidates the page may still show (bounds the page)
    nCands, ci,   \* candidates of the iframe, index of the current one
    cs,           \* state of the candidate being processed
    downloadedA,  \* list returned by strategy_iframe_popups
    downloadedB,  \* list returned by strategy_direct_links
    aState,       \* strategy A: "no", "running", "done"
    bState,       \* strategy B: "no", "running", "done"
    bQueue,       \* direct-link candidates still to download
    dl,           \* download bookkeeping: downloads that returned a path,
                  \* whether one failed, and the kind of the last file
                  \* operation ("download", "extract")
    ui,           \* index into downloaded during the upload loop
    uploaded,     \* names uploaded successfully
    upTries,      \* upload attempts made
    upFailed,     \* upload attempts that came back (False, info)
    exDir,        \* files present in the extraction directories
    arc,          \* the last call of extract_and_upload_file on an archive:
                  \* files the archive holds, upload attempts made for it,
                  \* and whether expansion and every copy went through
    tasks,        \* task ids of the request, in the order of the loop of
                  \* line 742
    ti,           \* index of the task in hand, 0 before the first
    results,      \* results appended so far (line 756)
    disk,         \* content of the working directories other than the
                  \* one of the task in hand
    browsers,     \* browser processes that earlier tasks left running
    dialogs       \* the click handlers of the pages open modal dialogs

taskVars == <<status, failure, workDir, browserAlive, driver>>
winVars == <<wins, nextWin, focusWin, focusFrame, baseHandles, pendingWins>>
netVars == <<traceBuf, pendingResp>>
scanVars == <<nFrames, fi, budget, nCands, ci, cs>>
listVars == <<downloadedA, downloadedB, aState, bState, bQueue, dl>>
upVars == <<ui, uploaded, upTries, upFailed, exDir, arc>>
reqVars == <<tasks, ti, results, disk, browsers, dialogs>>

vars == <<pc, taskVars, winVars, netVars, scanVars, listVars, upVars, reqVars>>

\* driver.window_handles for a window table.
HandlesOf(ws) == {MainWin} \cup {w \in 1..MaxWin : ws[w] # None}

handles == HandlesOf(wins)

\* The pending windows that have opened by the next look at window_handles.
Arrivals(pending) == SUBSET pending

(* ---------------------------------------------------------------------- *)
(* Tasks of a request and their working directories                        *)
(* ---------------------------------------------------------------------- *)
\* Line 743: tid = str(t.get('ID')), whatever the ID of the task holds.
TaskIds == {"7", "8", "7/x"}

\* The task in hand.
task_id == tasks[ti]

\* The path components of an id used as a relative path.
parts(id) == IF id = "7/x" THEN <<"7", "x">> ELSE <<id>>

\* Line 63.
DOWNLOAD_WORK_DIR == <<"temp_downloads">>

\* Line 610: work_dir = Path(DOWNLOAD_WORK_DIR) / task_id.
work_dir(id) == DOWNLOAD_WORK_DIR \o parts(id)

Dirs == {work_dir(id) : id \in TaskIds}

\* Directory d lies below directory top.
Inside(d, top) == Len(d) > Len(top) /\ SubSeq(d, 1, Len(top)) = top

\* A working directory: its files and the files of its extraction
\* directories.
EmptyDir == [files |-> {}, ex |-> {}]

\* State of a candidate before anything was read from it.
FreshCand ==
    [ href |-> None, selid |-> FALSE, clicked |-> FALSE, ran |-> {},
      polls |-> 0, via |-> "none", appended |-> 0, sawWin |-> None,
      spawn |-> None, curSeen |-> FALSE, picked |-> "none", winDl |-> "none",
      raised |-> FALSE, read |-> {}, alert |-> "none",
      preWin |-> MainWin, preFrame |-> TopFrame, perf |-> None ]

\* No archive has been handed to extract_and_upload_file yet.
NoArchive == [n |-> 0, tried |-> 0, clean |-> FALSE]

Init ==
    /\ pc = "start"
    /\ status = "none"
    /\ failure = "none"
    /\ tasks = <<"7">> /\ ti = 1
    /\ results = <<>>
    /\ disk = [d \in Dirs |-> EmptyDir]
    /\ browsers = 0
    /\ dialogs = FALSE
    /\ workDir = {}
    /\ browserAlive = FALSE
    /\ driver = FALSE
    /\ wins = [w \in 1..MaxWin |-> None]
    /\ nextWin = 1
    /\ focusWin = MainWin
    /\ focusFrame = TopFrame
    /\ baseHandles = {}
    /\ pendingWins = {}
    /\ traceBuf = {}
    /\ pendingResp = {}
    /\ nFrames = 0 /\ fi = 0 /\ nCands = 0 /\ ci = 0
    /\ budget = MaxTotalCands
    /\ cs = FreshCand
    /\ downloadedA = <<>> /\ downloadedB = <<>>
    /\ aState = "no" /\ bState = "no"
    /\ bQueue = <<>>
    /\ dl = [ok |-> 0, failed |-> FALSE, last |-> "none"]
    /\ ui = 0 /\ uploaded = <<>> /\ upTries = 0 /\ upFailed = 0
    /\ exDir = {}
    /\ arc = NoArchive

(* ---------------------------------------------------------------------- *)
(* handle_single_task: before the try block                                *)
(* ---------------------------------------------------------------------- *)
\* Line 612: shutil.rmtree(work_dir, ignore_errors=True) removes the
\* directory with all below it, or fails without a sign and leaves what it
\* could not remove.
rmtree(tree, gone) == IF gone THEN {} ELSE tree

\* Lines 610-613 run outside the try: rmtree ignores errors, ensure_dir does
\* not.  The working directories of other ids that lie below work_dir go
\* with it.
StartTask ==
    /\ pc = "start"
    /\ \E gone \in BOOLEAN :
         /\ workDir' = rmtree(workDir, gone)
         /\ exDir' = rmtree(exDir, gone)
         /\ disk' = [d \in Dirs |->
                       IF Inside(d, work_dir(task_id))
                       THEN [files |-> rmtree(disk[d].files, gone),
                             ex |-> rmtree(disk[d].ex, gone)]
                       ELSE disk[d]]
    /\ \E ok \in BOOLEAN :
         pc' = IF ok THEN "build" ELSE "raised"
    /\ UNCHANGED <<status, failure, browserAlive, driver, winVars, netVars,
                   scanVars, listVars, ui, uploaded, upTries, upFailed, arc, tasks, ti,
                   results, browsers, dialogs>>

\* build_driver: Chrome() may raise before a process exists; the timeout
\* setters run after the process exists and outside any try.
BuildDriver ==
    /\ pc = "build"
    /\ \E out \in {"chrome_raises", "setup_raises", "ok"} :
         /\ browserAlive' = (out # "chrome_raises")
         /\ driver' = (out = "ok")
         /\ pc' = IF out = "ok" THEN "get" ELSE "except"
         /\ failure' = IF out = "ok" THEN failure ELSE "build_driver"
    /\ UNCHANGED <<status, workDir, winVars, netVars, scanVars, listVars, upVars>>
    /\ UNCHANGED reqVars

\* driver.get(url): responses of the page load enter the performance log.
Navigate ==
    /\ pc = "get"
    /\ \E ok \in BOOLEAN :
         IF ok
         THEN /\ pc' = "title"
              /\ traceBuf' \in {{}} \cup
                     {{[resp |-> r, owner |-> "old"]} : r \in Responses}
              /\ UNCHANGED failure
         ELSE /\ pc' = "except"
              /\ failure' = "get"
              /\ UNCHANGED traceBuf
    /\ UNCHANGED <<status, workDir, browserAlive, driver, winVars, pendingResp, scanVars, listVars, upVars>>
    /\ UNCHANGED reqVars

\* Title extraction: the h3 scan is guarded, the fallback driver.title in the
\* except branch (line 635) is not.  session_from_driver swallows its failures.
ExtractTitle ==
    /\ pc = "title"
    /\ \E scanOk \in BOOLEAN, titleOk \in BOOLEAN :
         /\ pc' = IF scanOk \/ titleOk THEN "A_triggers" ELSE "except"
         /\ failure' = IF scanOk \/ titleOk THEN failure ELSE "title"
    /\ UNCHANGED <<status, workDir, browserAlive, driver, winVars, netVars, scanVars, listVars, upVars>>
    /\ UNCHANGED reqVars

(* ---------------------------------------------------------------------- *)
(* Environment: after a click the page opens windows and receives          *)
(* responses on its own schedule.  What is still to come is pending; it    *)
(* shows up, or not yet, whenever the program next looks (window_handles,  *)
(* get_log).                                                               *)
(* ---------------------------------------------------------------------- *)
\* Window table after the pending windows in "opened" have opened.
RECURSIVE Opened(_, _, _)
Opened(ws, nxt, opened) ==
    IF opened = {} \/ nxt > MaxWin THEN ws
    ELSE LET p == CHOOSE x \in opened : TRUE
         IN Opened([ws EXCEPT ![nxt] = Some(p)], nxt + 1, opened \ {p})

\* What page script may start in reaction to a click.
Scheduled(S, U, who, room) ==
    {S} \cup (IF room THEN {S \cup {[resp |-> r, owner |-> who]} : r \in U}
              ELSE {})

\* The URL shown by window w: the one the current click opened it with, any
\* for a window the current click did not open.
UrlsOf(ws, w) ==
    IF The(ws[w]).owner = "cur" THEN {The(cs.spawn)} ELSE WinUrls

WinRoom == pendingWins = {} /\ nextWin <= MaxWin

RespRoom == pendingResp = {}

(* ---------------------------------------------------------------------- *)
(* Download bookkeeping shared by every caller of download_with_session    *)
(* ---------------------------------------------------------------------- *)
FetchedIntoEmptied(url, ok) ==
    /\ dl' = [dl EXCEPT !.last = "download"]
    /\ workDir' = IF ok THEN {derive_filename_from_url(url)} ELSE {}

Fetched(url, ok) ==
    /\ dl' = [ok |-> dl.ok + (IF ok THEN 1 ELSE 0),
              failed |-> dl.failed \/ ~ok,
              last |-> "download"]
    /\ workDir' = IF ok THEN workDir \cup {derive_filename_from_url(url)} ELSE workDir

\* "if path: downloaded.append(path)"
Appended(list, r) == IF r # None THEN Append(list, The(r)) ELSE list

(* ---------------------------------------------------------------------- *)
(* strategy_iframe_popups                                                  *)
(* ---------------------------------------------------------------------- *)
\* Lines 390-407: click every opendown trigger; failures are per trigger.
ClickTriggers ==
    /\ pc = "A_triggers"
    /\ aState' = "running"
    /\ pendingWins' \in {pendingWins} \cup
                          (IF WinRoom THEN {{[owner |-> "old"]}} ELSE {})
    /\ traceBuf' \in Scheduled(traceBuf, Responses, "old", TRUE)
    /\ pc' = "A_frames"
    /\ UNCHANGED <<taskVars, wins, nextWin, focusWin, focusFrame, baseHandles,
                   pendingResp, scanVars, downloadedA, downloadedB, bState, bQueue,
                   dl, upVars>>
    /\ UNCHANGED reqVars

\* Line 410: outside the per-iframe try, so a raise ends the strategy (line 557).
FindIframes ==
    /\ pc = "A_frames"
    /\ \E ok \in BOOLEAN :
         IF ok
         THEN /\ nFrames' \in 0..MaxFrames
              /\ fi' = 1
              /\ pc' = "A_frame"
         ELSE /\ UNCHANGED <<nFrames, fi>>
              /\ pc' = "A_ret"
    /\ UNCHANGED <<taskVars, winVars, netVars, budget, nCands, ci, cs, listVars,
                   upVars>>
    /\ UNCHANGED reqVars

\* driver.switch_to.default_content() raises when the focused window is gone.
default_content == IF focusWin \in handles THEN TopFrame ELSE focusFrame

\* Lines 412-429 and the finally of 552-556: enter iframe fi or skip it.
EnterFrame ==
    /\ pc = "A_frame"
    /\ fi <= nFrames
    /\ \E entered \in BOOLEAN :
         IF entered /\ focusWin = MainWin
         THEN \E opened \in Arrivals(pendingWins) :
              /\ wins' = Opened(wins, nextWin, opened)
              /\ nextWin' = nextWin + Cardinality(opened)
              /\ pendingWins' = pendingWins \ opened
              /\ focusFrame' = fi
              /\ nCands' \in 0..budget
              /\ budget' = budget - nCands'
              /\ ci' = 1
              /\ cs' = FreshCand
              /\ baseHandles' = HandlesOf(wins')
              /\ pc' = "cand"
              /\ UNCHANGED fi
         ELSE /\ focusFrame' = default_content
              /\ fi' = fi + 1
              /\ pc' = "A_frame"
              /\ UNCHANGED <<budget, nCands, ci, cs, baseHandles, wins, nextWin,
                             pendingWins>>
    /\ UNCHANGED <<taskVars, focusWin, netVars, nFrames, listVars, upVars>>
    /\ UNCHANGED reqVars

\* Lines 545-556: all candidates done, back to default content, next iframe.
LeaveFrame ==
    /\ pc = "cand"
    /\ ci > nCands
    /\ focusFrame' = default_content
    /\ fi' = fi + 1
    /\ nCands' = 0 /\ ci' = 0 /\ baseHandles' = {}
    /\ pc' = "A_frame"
    /\ UNCHANGED <<taskVars, wins, nextWin, focusWin, pendingWins, netVars, nFrames,
                   budget, cs, listVars, upVars>>
    /\ UNCHANGED reqVars

\* Lines 557-560: the function returns and its locals are gone.  Nothing
\* looks at window_handles or at the performance log from here on, so what
\* the page still had pending no longer matters.
StrategyAReturn ==
    /\ \/ pc = "A_ret"
       \/ pc = "A_frame" /\ fi > nFrames
    /\ aState' = "done"
    /\ nFrames' = 0 /\ fi' = 0 /\ budget' = 0 /\ nCands' = 0 /\ ci' = 0
    /\ cs' = FreshCand
    /\ baseHandles' = {}
    /\ pendingWins' = {} /\ pendingResp' = {} /\ traceBuf' = {}
    /\ pc' = "after_A"
    /\ UNCHANGED <<taskVars, wins, nextWin, focusWin, focusFrame, downloadedA,
                   downloadedB, bState, bQueue, dl, upVars>>
    /\ UNCHANGED reqVars

\* An element of iframe fi of the main window answers only while the session
\* is focused on that frame of that window.
ElementReachable == focusWin = MainWin /\ focusFrame = fi

\* Line 437, Case 1.
NeverDirectHref(href) == FALSE

IsDirectHref(href) ==
    /\ href # None
    /\ startswith_http(The(href))
    /\ looks_like_attachment(The(href))

\* Lines 431-446: read title, href and onclick of candidate ci.
ReadCandidate ==
    /\ pc = "cand"
    /\ ci <= nCands
    /\ \E ok \in BOOLEAN :
         IF ok /\ ElementReachable
         THEN \E h \in {Some(u) : u \in Hrefs}, sel \in BOOLEAN :
                /\ cs' = [FreshCand EXCEPT !.href = h, !.selid = sel,
                                           !.preWin = focusWin,
                                           !.preFrame = focusFrame]
                /\ pc' = IF IsDirectHref(h) THEN "direct" ELSE "click"
         ELSE /\ cs' = FreshCand
              /\ pc' = "next"
    /\ UNCHANGED <<taskVars, winVars, netVars, nFrames, fi, budget, nCands, ci,
                   listVars, upVars>>
    /\ UNCHANGED reqVars

\* Lines 438-441.
DirectDownload ==
    /\ pc = "direct"
    /\ \E ok \in BOOLEAN :
         LET r == download_with_session(The(cs.href), ok) IN
           /\ Fetched(The(cs.href), ok)
           /\ downloadedA' = Appended(downloadedA, r)
           /\ cs' = [cs EXCEPT !.ran = @ \cup {"direct"},
                               !.via = IF r # None THEN "DirectHref" ELSE @,
                               !.appended = @ + (IF r # None THEN 1 ELSE 0)]
    /\ pc' = "next"
    /\ UNCHANGED <<status, failure, browserAlive, driver, winVars, netVars, nFrames, fi,
                   budget, nCands, ci, downloadedB, aState, bState, bQueue, upVars>>
    /\ UNCHANGED reqVars

\* Lines 453-459, the handler of UnexpectedAlertPresentException: what
\* became of the dialog.  "logged": lines 454-457 ran, the message is in
\* messages and the dialog was dismissed.  "swallowed": driver.switch_to.alert
\* or alert.text raised (the driver had closed the dialog on its own when it
\* raised the exception, as it does unless told otherwise, and build_driver
\* sets no unhandledPromptBehavior), nothing is appended.  "stuck": the
\* message is appended and alert.dismiss() raised.  Line 458 swallows both.
AlertHandled == {"logged", "swallowed", "stuck"}

\* Lines 448-461: script click; an alert or any other failure is swallowed.
Click ==
    /\ pc = "click"
    /\ \E out \in {"ok", "raises"} \cup (IF dialogs THEN {"alert"} ELSE {}) :
         IF out = "raises"
         THEN /\ cs' = [cs EXCEPT !.clicked = TRUE]
              /\ UNCHANGED <<pendingWins, pendingResp>>
         ELSE /\ \E sp \in {None} \cup
                           (IF WinRoom THEN {Some(u) : u \in WinUrls} ELSE {}),
                    h \in (IF out = "alert" THEN AlertHandled ELSE {"none"}) :
                   /\ cs' = [cs EXCEPT !.clicked = TRUE, !.spawn = sp,
                                       !.alert = h]
                   /\ pendingWins' = IF sp = None THEN pendingWins
                                     ELSE pendingWins \cup {[owner |-> "cur"]}
              /\ pendingResp' \in Scheduled(pendingResp, Responses, "cur", RespRoom)
    /\ pc' = "await"
    /\ UNCHANGED <<taskVars, wins, nextWin, focusWin, focusFrame, baseHandles,
                   traceBuf, nFrames, fi, budget, nCands, ci, listVars, upVars>>
    /\ UNCHANGED reqVars

\* "if got_one: continue" (lines 494-495 and 517-518).
KeepProbing(got, nextProbe) == nextProbe

AfterProbe(got, nextProbe) == IF got THEN "next" ELSE nextProbe

\* Line 469: new = list(now_handles - base_handles).
new_handles(now, base) == now \ base

\* Lines 464-493, probe A.  The loop ends at the first poll that sees a new
\* handle or when CLICK_NEW_WINDOW_WAIT has elapsed.  new[0] and
\* list(base_handles)[0] are elements of sets: any element may come first.
AwaitWindow ==
    /\ pc = "await"
    /\ \E opened \in Arrivals(pendingWins) :
       LET ws == Opened(wins, nextWin, opened)
           new == new_handles(HandlesOf(ws), baseHandles)
           seen == \E v \in new : The(ws[v]).owner = "cur"
           looked == [cs EXCEPT !.ran = @ \cup {"window"}, !.curSeen = seen]
       IN
       /\ nextWin' = nextWin + Cardinality(opened)
       /\ pendingWins' = pendingWins \ opened
       /\ IF new = {}
          THEN /\ cs' = looked
               /\ pc' = "poll"
               /\ wins' = ws
               /\ UNCHANGED <<focusWin, focusFrame, downloadedA, dl, workDir>>
          ELSE \E w \in new, step \in {"switch_raises", "url_raises", "read"} :
               LET chose == [looked EXCEPT !.picked = The(ws[w]).owner] IN
               CASE step = "switch_raises" ->
                      /\ cs' = [chose EXCEPT !.raised = TRUE]
                      /\ pc' = "poll"
                      /\ wins' = ws
                      /\ UNCHANGED <<focusWin, focusFrame, downloadedA, dl, workDir>>
                 [] step = "url_raises" ->
                      /\ cs' = [chose EXCEPT !.sawWin = Some(w), !.raised = TRUE]
                      /\ focusWin' = w
                      /\ focusFrame' = TopFrame
                      /\ pc' = "poll"
                      /\ wins' = ws
                      /\ UNCHANGED <<downloadedA, dl, workDir>>
                 [] step = "read" ->
                      \E new_url \in UrlsOf(ws, w) :
                      LET tryDl == startswith_http(new_url)
                                     /\ looks_like_attachment(new_url)
                      IN \E ok \in (IF tryDl THEN BOOLEAN ELSE {FALSE}),
                            closeOk \in BOOLEAN, backOk \in BOOLEAN,
                            back \in baseHandles :
                           LET r == IF tryDl THEN download_with_session(new_url, ok)
                                    ELSE None
                           IN /\ IF tryDl THEN Fetched(new_url, ok)
                                          ELSE UNCHANGED <<dl, workDir>>
                              /\ downloadedA' = Appended(downloadedA, r)
                              /\ cs' = [chose EXCEPT
                                          !.sawWin = Some(w),
                                          !.raised = ~closeOk \/ ~backOk,
                                          !.winDl = IF ~tryDl THEN "none"
                                                    ELSE IF ok THEN "ok" ELSE "failed",
                                          !.via = IF r # None THEN "NewWindow" ELSE @,
                                          !.appended = @ + (IF r # None THEN 1 ELSE 0)]
                              /\ wins' = IF closeOk THEN [ws EXCEPT ![w] = None]
                                         ELSE ws
                              /\ focusWin' = IF backOk THEN back ELSE w
                              /\ focusFrame' = TopFrame
                              /\ pc' = AfterProbe(r # None, "poll")
    /\ UNCHANGED <<status, failure, browserAlive, driver, baseHandles, netVars,
                   nFrames, fi, budget, nCands, ci, downloadedB, aState, bState,
                   bQueue, upVars>>
    /\ UNCHANGED reqVars

\* What extract_urls_from_perf_logs returns and the caller accepts (line 505).
in_bidcenter(v) == v.host = "down.bidcenter"

\* Lines 247-250: the strings the deep search takes.  Every string of the
\* model that contains an extension ends with it.
deep_match(v) ==
    \/ v.ext \in ATTACH_EXTS
    \/ startswith_http(v) /\ (in_bidcenter(v) \/ v.ext \in ATTACH_EXTS)

\* Lines 244-259, find_url: depth first, fields in document order, whatever
\* the name of the field.
RECURSIVE find_url(_)
RECURSIVE find_items(_)
find_items(kids) ==
    IF kids = <<>> THEN None
    ELSE LET v == Head(kids).v
         IN IF v.t = "str" /\ deep_match(v.s) THEN Some(v.s)
            ELSE LET res == find_url(v)
                 IN IF res # None THEN res ELSE find_items(Tail(kids))

find_url(obj) == IF obj.t = "dict" THEN find_items(obj.kids) ELSE None

\* Line 262: the field names looked up at the top level, in this order.
COMMON_FIELDS == <<"urlhref", "fileUrl", "downloadUrl", "url">>

\* Lines 262-267: the first common field of the top level that holds a
\* string starting with http.
RECURSIVE top_field(_, _)
top_field(j, names) ==
    IF names = <<>> THEN None
    ELSE LET hit == {i \in 1..Len(j.kids) :
                       /\ j.kids[i].k = Head(names)
                       /\ j.kids[i].v.t = "str"
                       /\ startswith_http(j.kids[i].v.s)}
         IN IF hit # {} THEN Some(j.kids[CHOOSE i \in hit : TRUE].v.s)
            ELSE top_field(j, Tail(names))

\* Lines 260-270: the URL a parsed body contributes.
TopFieldsOnly(j) == top_field(j, COMMON_FIELDS)

body_url(j) ==
    LET found == top_field(j, COMMON_FIELDS)
    IN IF found # None THEN found ELSE find_url(j)

\* Lines 206-273: the URLs one responseReceived entry adds to the list.
entry_urls(r) ==
    LET found == body_url(r.body)
    IN (IF looks_like_attachment(r.url) THEN <<r.url>> ELSE <<>>)
       \o (IF found # None /\ ~(looks_like_attachment(r.url) /\ The(found) = r.url)
           THEN <<The(found)>> ELSE <<>>)

\* Lines 505-506: a URL that does not start with http is joined to the URL
\* of the page.
joined(pu) ==
    IF startswith_http(pu) THEN pu
    ELSE [pu EXCEPT !.scheme = "http", !.host = "site"]

\* Line 507: the URLs probe B takes.
TakesAnyUrl(pu) == TRUE

perf_accepts(pu) == looks_like_attachment(pu) \/ in_bidcenter(pu)

\* Lines 503-509: perf_found, the first URL of the list that probe B takes.
RECURSIVE perf_found(_)
perf_found(urls) ==
    IF urls = <<>> THEN None
    ELSE LET pu == joined(Head(urls))
         IN IF perf_accepts(pu) THEN Some(pu) ELSE perf_found(Tail(urls))

AcceptedPerf(buf) == {e \in buf : perf_found(entry_urls(e.resp)) # None}

NeverHit(log, i) == 0

\* The poll (1..PERF_POLL_ITER) whose read of the log first holds an accepted
\* URL, 0 when none does.  log[i] is what get_log hands out at poll i.
RECURSIVE FirstHit(_, _)
FirstHit(log, i) ==
    IF i > PERF_POLL_ITER THEN 0
    ELSE IF AcceptedPerf(log[i]) # {} THEN i
    ELSE FirstHit(log, i + 1)

\* Lines 498-510, probe B: up to PERF_POLL_ITER reads of the performance log,
\* PERF_POLL_SLEEP apart.  get_log hands out the entries logged since the
\* previous call.  A response in flight arrives before poll "at" (the first,
\* a middle or the last one), or not while the loop runs (at = 0).
PollTrace ==
    /\ pc = "poll"
    /\ \E at \in (IF pendingResp = {} THEN {0} ELSE {0, 1, PERF_POLL_ITER}) :
         LET log == [i \in 1..PERF_POLL_ITER |->
                       (IF i = 1 THEN traceBuf ELSE {})
                         \cup (IF i = at THEN pendingResp ELSE {})]
             hitAt == FirstHit(log, 1)
             got(upto) == {e.resp : e \in UNION {log[i] : i \in 1..upto}}
         IN IF hitAt # 0
            THEN /\ \E e \in AcceptedPerf(log[hitAt]) :
                      cs' = [cs EXCEPT !.ran = @ \cup {"trace"},
                                       !.polls = hitAt,
                                       !.read = got(hitAt),
                                       !.perf = Some(
                                          [url |-> The(perf_found(entry_urls(e.resp))),
                                           owner |-> e.owner])]
                 /\ pendingResp' = IF at # 0 /\ at <= hitAt THEN {} ELSE pendingResp
                 /\ traceBuf' = {}
                 /\ pc' = "trace_dl"
            ELSE /\ cs' = [cs EXCEPT !.ran = @ \cup {"trace"},
                                     !.polls = PERF_POLL_ITER,
                                     !.read = got(PERF_POLL_ITER)]
                 /\ pendingResp' = IF at # 0 THEN {} ELSE pendingResp
                 /\ traceBuf' = {}
                 /\ pc' = "container"
    /\ UNCHANGED <<taskVars, winVars, nFrames, fi, budget, nCands, ci, listVars,
                   upVars>>
    /\ UNCHANGED reqVars

\* Lines 511-518.
TraceDownload ==
    /\ pc = "trace_dl"
    /\ \E ok \in BOOLEAN :
         LET u == The(cs.perf).url
             r == download_with_session(u, ok)
         IN /\ Fetched(u, ok)
            /\ downloadedA' = Appended(downloadedA, r)
            /\ cs' = [cs EXCEPT !.via = IF r # None THEN "NetworkTrace" ELSE @,
                                !.appended = @ + (IF r # None THEN 1 ELSE 0)]
            /\ pc' = AfterProbe(r # None, "container")
    /\ UNCHANGED <<status, failure, browserAlive, driver, winVars, netVars, nFrames, fi,
                   budget, nCands, ci, downloadedB, aState, bState, bQueue, upVars>>
    /\ UNCHANGED reqVars

\* Line 520, "if selid:": the onclick matched GetValidateCode('<id>')
\* (lines 443-446).
AnyCandidate(c) == TRUE

HasContainer(c) == c.selid

\* Lines 519-542, probe C: only when the onclick named a container.
InspectContainer ==
    /\ pc = "container"
    /\ IF HasContainer(cs)
       THEN \E link \in {None} \cup {Some(u) : u \in ContainerUrls}, ok \in BOOLEAN :
              LET found == IF ElementReachable THEN link ELSE None
                  r == IF found # None THEN download_with_session(The(found), ok)
                       ELSE None
              IN /\ IF found # None THEN Fetched(The(found), ok)
                                    ELSE UNCHANGED <<dl, workDir>>
                 /\ downloadedA' = Appended(downloadedA, r)
                 /\ cs' = [cs EXCEPT !.ran = @ \cup {"container"},
                                     !.via = IF r # None THEN "DomContainer" ELSE @,
                                     !.appended = @ + (IF r # None THEN 1 ELSE 0)]
       ELSE UNCHANGED <<dl, workDir, downloadedA, cs>>
    /\ pc' = "next"
    /\ UNCHANGED <<status, failure, browserAlive, driver, winVars, netVars, nFrames, fi,
                   budget, nCands, ci, downloadedB, aState, bState, bQueue, upVars>>
    /\ UNCHANGED reqVars

\* Whatever the click of this candidate caused belongs to an earlier
\* candidate from now on.
Aged(e) == IF e.owner = "cur" THEN [e EXCEPT !.owner = "old"] ELSE e

\* Line 430: the loop moves to the next candidate.
NextCandidate ==
    /\ pc = "next"
    /\ ci' = ci + 1
    /\ cs' = FreshCand
    /\ wins' = [w \in 1..MaxWin |-> IF wins[w] = None THEN None
                                    ELSE Some(Aged(The(wins[w])))]
    /\ pendingWins' = {Aged(e) : e \in pendingWins}
    /\ pendingResp' = {Aged(e) : e \in pendingResp}
    /\ traceBuf' = {Aged(e) : e \in traceBuf}
    /\ pc' = "cand"
    /\ UNCHANGED <<taskVars, nextWin, focusWin, focusFrame, baseHandles, nFrames,
                   fi, budget, nCands, listVars, upVars>>
    /\ UNCHANGED reqVars

(* ---------------------------------------------------------------------- *)
(* strategy_direct_links                                                   *)
(* ---------------------------------------------------------------------- *)
\* An href as written in the page markup: relative or absolute text that
\* denotes the absolute URL target.
RawHrefs ==
    { [rel |-> FALSE, target |-> [scheme |-> "http", host |-> "files", stem |-> "a", ext |-> ".pdf"]],
      [rel |-> TRUE,  target |-> [scheme |-> "http", host |-> "site", stem |-> "a", ext |-> ".pdf"]],
      [rel |-> TRUE,  target |-> [scheme |-> "http", host |-> "site", stem |-> "view", ext |-> ".aspx"]] }

\* href attributes of the anchors of the top-level page.
AnchorHrefs ==
    { [scheme |-> "http", host |-> "files", stem |-> "a", ext |-> ".pdf"],
      [scheme |-> "http", host |-> "site", stem |-> "a", ext |-> ".pdf"],
      [scheme |-> "javascript", host |-> "", stem |-> "open('a", ext |-> ".pdf"] }

urljoin(m) == m.target

InSeq(x, q) == \E i \in 1..Len(q) : q[i] = x

AnchorKept(href) == href.scheme # "javascript" /\ looks_like_attachment(href)

RECURSIVE AddFromSource(_, _)
\* Lines 584-588: hrefs of the page source, skipped when already in cand.
AddFromSource(cand, srcs) ==
    IF srcs = <<>> THEN cand
    ELSE LET m == Head(srcs)
             full == urljoin(m)
         IN AddFromSource(
              IF looks_like_attachment(m.target) /\ ~InSeq(full, cand)
              THEN Append(cand, full) ELSE cand,
              Tail(srcs))

\* Lines 571-588: the candidate list of the scan.
direct_link_candidates(anchors, srcs) ==
    AddFromSource(SelectSeq(anchors, AnchorKept), srcs)

SeqsUpTo(S, n) == UNION {[1..k -> S] : k \in 0..n}

\* Line 648: strategy B runs when strategy A returned an empty list.
AlwaysFallBack(listA) == TRUE

NeedsFallback(listA) == listA = <<>>

\* Lines 644-653.
AfterStrategyA ==
    /\ pc = "after_A"
    /\ pc' = IF NeedsFallback(downloadedA) THEN "B_scan" ELSE "collect"
    /\ UNCHANGED <<taskVars, winVars, netVars, scanVars, listVars, upVars>>
    /\ UNCHANGED reqVars

\* Lines 566-591: a raise anywhere ends the scan with nothing (line 599).
ScanDirectLinks ==
    /\ pc = "B_scan"
    /\ bState' = "running"
    /\ \E ok \in BOOLEAN :
         IF ok /\ focusWin \in handles
         THEN /\ focusFrame' = TopFrame
              /\ \E anchors \in SeqsUpTo(AnchorHrefs, MaxLinks),
                    srcs \in SeqsUpTo(RawHrefs, MaxLinks) :
                   bQueue' = direct_link_candidates(anchors, srcs)
         ELSE /\ UNCHANGED focusFrame
              /\ bQueue' = <<>>
    /\ pc' = "B_dl"
    /\ UNCHANGED <<taskVars, wins, nextWin, focusWin, baseHandles, pendingWins,
                   netVars, scanVars, downloadedA, downloadedB, aState, dl, upVars>>
    /\ UNCHANGED reqVars

\* Lines 592-598, one candidate.
DownloadDirectLink ==
    /\ pc = "B_dl"
    /\ bQueue # <<>>
    /\ \E ok \in BOOLEAN :
         LET u == Head(bQueue)
             r == download_with_session(u, ok)
         IN /\ Fetched(u, ok)
            /\ downloadedB' = Appended(downloadedB, r)
    /\ bQueue' = Tail(bQueue)
    /\ UNCHANGED <<pc, status, failure, browserAlive, driver, winVars, netVars,
                   scanVars, downloadedA, aState, bState, upVars>>
    /\ UNCHANGED reqVars

\* Lines 601-602 and 651.
StrategyBReturn ==
    /\ pc = "B_dl"
    /\ bQueue = <<>>
    /\ bState' = "done"
    /\ pc' = "collect"
    /\ UNCHANGED <<taskVars, winVars, netVars, scanVars, downloadedA, downloadedB,
                   aState, bQueue, dl, upVars>>
    /\ UNCHANGED reqVars

(* ---------------------------------------------------------------------- *)
(* handle_single_task: result assembly, extraction and upload, teardown    *)
(* ---------------------------------------------------------------------- *)
\* Line 655: downloaded = downloaded_a + downloaded_b.
OnlyFromA == downloadedA

downloaded == downloadedA \o downloadedB

\* Lines 656-658 and 669: the status of a run that raised nothing.
AlwaysSuccess(list) == "success"

task_status(list) == IF list = <<>> THEN "no_content" ELSE "success"

\* Lines 655-661.
Collect ==
    /\ pc = "collect"
    /\ IF task_status(downloaded) = "no_content"
       THEN /\ status' = "no_content"
            /\ pc' = "finally"
            /\ UNCHANGED ui
       ELSE /\ ui' = 1
            /\ pc' = "upload"
            /\ UNCHANGED status
    /\ UNCHANGED <<failure, workDir, browserAlive, driver, winVars, netVars,
                   scanVars, listVars, uploaded, upTries, upFailed, exDir,
                   arc>>
    /\ UNCHANGED reqVars

\* The page title as handle_single_task passes it on (line 636:
\* page_title_15 = short_title(page_title)).
page_title_15 == "<shortTitle>"

\* A file an archive holds.
Member(f, i) == [arc |-> f, i |-> i]

\* What zf.extractall / patoolib.extract_archive write for archive f: the
\* archives of the site hold MaxInner files each.
extractall(f) == {Member(f, i) : i \in 1..MaxInner}

\* Lines 325, 346 and 357: stdname = task id + short title + "附件" + name of the
\* downloaded file, followed by "_" + the inner file for a file of an
\* archive (Whole: the downloaded file itself).
Whole(f) == Member(f, 0)

StdName(f, inner) ==
    [task |-> task_id, title |-> page_title_15, name |-> f, inner |-> inner]

IsArchive(f) == f.ext \in {".zip", ".rar"}

\* Lines 317 and 339: extract_dir = path.parent / f"_extracted_{path.stem}".
extract_dir(f) == f.stem

\* os.walk(extract_dir): the files below the extraction directory of f, in
\* the order of the directory listing.
RECURSIVE InOrder(_)
InOrder(S) ==
    IF S = {} THEN <<>>
    ELSE LET m == CHOOSE x \in S :
                    \A y \in S : \/ x.arc.ext = y.arc.ext /\ x.i <= y.i
                                 \/ (x.arc.ext = ".zip" /\ y.arc.ext = ".rar")
         IN <<m>> \o InOrder(S \ {m})

walk(dir, f) == InOrder({m \in dir : extract_dir(m.arc) = extract_dir(f)})

\* Every name for which an upload was attempted, successful or not.
AllAttempted(f, ms, oks) == [i \in 1..Len(ms) |-> StdName(f, ms[i])]

RECURSIVE UploadedOf(_, _, _)
\* The names under which the files ms[1..k] of archive f were uploaded, for
\* the uploads oks that succeeded (lines 327-331).
UploadedOf(f, ms, oks) ==
    IF ms = <<>> THEN <<>>
    ELSE LET k == Len(ms)
             before == UploadedOf(f, SubSeq(ms, 1, k - 1), oks)
         IN IF k \in oks THEN Append(before, StdName(f, ms[k])) ELSE before

\* One round of the loop of lines 662-666: a missing file is skipped, any
\* other is handed to extract_and_upload_file (lines 313-367).
\* An archive is expanded into its extraction directory and every file found
\* below that directory is copied and uploaded, one by one; a failing
\* expansion (or a .rar without patoolib) or a failing copy ends the archive
\* (lines 332, 336, 353).  Any other file is copied and uploaded under its
\* standard name.
ExtractAndUpload ==
    /\ pc = "upload"
    /\ ui <= Len(downloaded)
    /\ LET f == downloaded[ui] IN
       IF f \notin workDir
       THEN UNCHANGED <<uploaded, upTries, upFailed, workDir, dl, exDir, arc>>
       ELSE
       /\ dl' = [dl EXCEPT !.last = "extract"]
       /\ IF IsArchive(f)
          THEN \E expandOk \in BOOLEAN :
               LET dir == IF expandOk THEN exDir \cup extractall(f) ELSE exDir
                   found == IF expandOk THEN walk(dir, f) ELSE <<>>
                   n == Cardinality(extractall(f))
               IN \E k \in 0..Len(found) :
                  \E oks \in SUBSET (1..k) :
                    /\ exDir' = dir
                    /\ uploaded' = uploaded \o UploadedOf(f, SubSeq(found, 1, k), oks)
                    /\ upTries' = upTries + k
                    /\ upFailed' = upFailed + k - Cardinality(oks)
                    /\ workDir' = workDir \cup
                                    {StdName(f, found[i]) : i \in 1..k}
                    /\ arc' = [n |-> n, tried |-> k,
                               clean |-> expandOk /\ k = Len(found)]
          ELSE /\ \E copyOk \in (IF StdName(f, Whole(f)) \in workDir
                                  THEN {TRUE} ELSE BOOLEAN),
                      ok \in BOOLEAN :
                   IF copyOk
                   THEN /\ uploaded' = IF ok
                                       THEN Append(uploaded, StdName(f, Whole(f)))
                                       ELSE uploaded
                        /\ upTries' = upTries + 1
                        /\ upFailed' = upFailed + (IF ok THEN 0 ELSE 1)
                        /\ workDir' = workDir \cup {StdName(f, Whole(f))}
                   ELSE UNCHANGED <<uploaded, upTries, upFailed, workDir>>
               /\ UNCHANGED <<exDir, arc>>
    /\ ui' = ui + 1
    /\ UNCHANGED <<pc, status, failure, browserAlive, driver, winVars, netVars,
                   scanVars, downloadedA, downloadedB, aState, bState, bQueue>>
    /\ UNCHANGED reqVars

\* Lines 668-669.
ReturnSuccess ==
    /\ pc = "upload"
    /\ ui > Len(downloaded)
    /\ status' = task_status(downloaded)
    /\ pc' = "finally"
    /\ UNCHANGED <<failure, workDir, browserAlive, driver, winVars, netVars,
                   scanVars, listVars, upVars>>
    /\ UNCHANGED reqVars

\* Lines 671-680: the except branch quits the browser it knows of.
HandleException ==
    /\ pc = "except"
    /\ status' = "error"
    /\ browserAlive' = IF driver THEN FALSE ELSE browserAlive
    /\ pc' = "finally"
    /\ UNCHANGED <<failure, workDir, driver, winVars, netVars, scanVars, listVars,
                   upVars>>
    /\ UNCHANGED reqVars

\* Lines 681-686.
Finally ==
    /\ pc = "finally"
    /\ browserAlive' = IF driver THEN FALSE ELSE browserAlive
    /\ pc' = "returned"
    /\ UNCHANGED <<status, failure, workDir, driver, winVars, netVars, scanVars,
                   listVars, upVars>>
    /\ UNCHANGED reqVars

Next ==
    \/ StartTask
    \/ BuildDriver
    \/ Navigate
    \/ ExtractTitle
    \/ ClickTriggers
    \/ FindIframes
    \/ EnterFrame
    \/ LeaveFrame
    \/ StrategyAReturn
    \/ ReadCandidate
    \/ DirectDownload
    \/ Click
    \/ AwaitWindow
    \/ PollTrace
    \/ TraceDownload
    \/ InspectContainer
    \/ NextCandidate
    \/ AfterStrategyA
    \/ ScanDirectLinks
    \/ DownloadDirectLink
    \/ StrategyBReturn
    \/ Collect
    \/ ExtractAndUpload
    \/ ReturnSuccess
    \/ HandleException
    \/ Finally

Spec == Init /\ [][Next]_vars

(* ---------------------------------------------------------------------- *)
(* The route upload_to_bisheng: the tasks of one request, one after the    *)
(* other.  The pages of these tasks hold no candidate inside an iframe, so *)
(* that files come from the direct-link scan.                              *)
(* ---------------------------------------------------------------------- *)
\* Lines 742-746: the loop takes the next task and calls handle_single_task,
\* whose locals start afresh; work_dir is whatever the disk holds there.
Dispatch ==
    /\ pc = "route"
    /\ ti < Len(tasks)
    /\ ti' = ti + 1
    /\ pc' = "start"
    /\ workDir' = disk[work_dir(tasks[ti'])].files
    /\ exDir' = disk[work_dir(tasks[ti'])].ex
    /\ status' = "none" /\ failure' = "none"
    /\ browserAlive' = FALSE /\ driver' = FALSE
    /\ wins' = [w \in 1..MaxWin |-> None]
    /\ nextWin' = 1
    /\ focusWin' = MainWin /\ focusFrame' = TopFrame
    /\ baseHandles' = {}
    /\ pendingWins' = {} /\ traceBuf' = {} /\ pendingResp' = {}
    /\ nFrames' = 0 /\ fi' = 0 /\ nCands' = 0 /\ ci' = 0
    /\ budget' = 0
    /\ cs' = FreshCand
    /\ downloadedA' = <<>> /\ downloadedB' = <<>>
    /\ aState' = "no" /\ bState' = "no"
    /\ bQueue' = <<>>
    /\ dl' = [ok |-> 0, failed |-> FALSE, last |-> "none"]
    /\ ui' = 0 /\ uploaded' = <<>> /\ upTries' = 0 /\ upFailed' = 0
    /\ arc' = NoArchive
    /\ UNCHANGED <<tasks, results, disk, browsers, dialogs>>

\* What the task in hand leaves behind when handle_single_task is over: its
\* directory, and the browser it did not quit, which from then on counts
\* among those of earlier tasks.
LeftOnDisk == [disk EXCEPT ![work_dir(task_id)] = [files |-> workDir, ex |-> exDir]]

LeftRunning == browsers + (IF browserAlive THEN 1 ELSE 0)

\* Lines 746-756: handle_single_task returned, its result is appended.
RouteAppend ==
    /\ pc = "returned"
    /\ ti <= Len(tasks)
    /\ results' = Append(results, [ID |-> task_id, status |-> status,
                                   uploaded |-> uploaded])
    /\ disk' = LeftOnDisk
    /\ browsers' = LeftRunning
    /\ browserAlive' = FALSE
    /\ pc' = "route"
    /\ UNCHANGED <<status, failure, workDir, driver, winVars, netVars, scanVars,
                   listVars, upVars, tasks, ti, dialogs>>

\* Line 746 stands in no try: an exception that leaves handle_single_task
\* leaves the route as well, and the request ends without a response body
\* of the route.
Propagate ==
    /\ pc = "raised"
    /\ disk' = LeftOnDisk
    /\ browsers' = LeftRunning
    /\ browserAlive' = FALSE
    /\ pc' = "crashed"
    /\ UNCHANGED <<status, failure, workDir, driver, winVars, netVars, scanVars,
                   listVars, upVars, tasks, ti, results, dialogs>>

\* Line 758: the response with details = results.
Respond ==
    /\ pc = "route"
    /\ ti = Len(tasks)
    /\ pc' = "responded"
    /\ UNCHANGED <<taskVars, winVars, netVars, scanVars, listVars, upVars, reqVars>>

\* Lines 701-740: the request carries one task or several.
ReqInit ==
    /\ pc = "route"
    /\ tasks \in UNION {[1..n -> TaskIds] : n \in 1..MaxTasks}
    /\ ti = 0
    /\ results = <<>>
    /\ disk = [d \in Dirs |-> EmptyDir]
    /\ browsers = 0
    /\ dialogs = FALSE
    /\ status = "none" /\ failure = "none"
    /\ workDir = {}
    /\ browserAlive = FALSE /\ driver = FALSE
    /\ wins = [w \in 1..MaxWin |-> None]
    /\ nextWin = 1
    /\ focusWin = MainWin /\ focusFrame = TopFrame
    /\ baseHandles = {}
    /\ pendingWins = {} /\ traceBuf = {} /\ pendingResp = {}
    /\ nFrames = 0 /\ fi = 0 /\ nCands = 0 /\ ci = 0
    /\ budget = 0
    /\ cs = FreshCand
    /\ downloadedA = <<>> /\ downloadedB = <<>>
    /\ aState = "no" /\ bState = "no"
    /\ bQueue = <<>>
    /\ dl = [ok |-> 0, failed |-> FALSE, last |-> "none"]
    /\ ui = 0 /\ uploaded = <<>> /\ upTries = 0 /\ upFailed = 0
    /\ exDir = {}
    /\ arc = NoArchive

ReqNext ==
    \/ Dispatch
    \/ StartTask
    \/ BuildDriver
    \/ Navigate
    \/ ExtractTitle
    \/ ClickTriggers
    \/ FindIframes
    \/ EnterFrame
    \/ LeaveFrame
    \/ StrategyAReturn
    \/ AfterStrategyA
    \/ ScanDirectLinks
    \/ DownloadDirectLink
    \/ StrategyBReturn
    \/ Collect
    \/ ExtractAndUpload
    \/ ReturnSuccess
    \/ HandleException
    \/ Finally
    \/ RouteAppend
    \/ Propagate
    \/ Respond

ReqSpec == ReqInit /\ [][ReqNext]_vars

(* ---------------------------------------------------------------------- *)
(* A task on a page whose click handlers open modal dialogs and which      *)
(* shows one candidate.                                                    *)
(* ---------------------------------------------------------------------- *)
AlertInit ==
    /\ pc = "start"
    /\ status = "none"
    /\ failure = "none"
    /\ tasks = <<"7">> /\ ti = 1
    /\ results = <<>>
    /\ disk = [d \in Dirs |-> EmptyDir]
    /\ browsers = 0
    /\ dialogs = TRUE
    /\ workDir = {}
    /\ browserAlive = FALSE
    /\ driver = FALSE
    /\ wins = [w \in 1..MaxWin |-> None]
    /\ nextWin = 1
    /\ focusWin = MainWin
    /\ focusFrame = TopFrame
    /\ baseHandles = {}
    /\ pendingWins = {}
    /\ traceBuf = {}
    /\ pendingResp = {}
    /\ nFrames = 0 /\ fi = 0 /\ nCands = 0 /\ ci = 0
    /\ budget = 1
    /\ cs = FreshCand
    /\ downloadedA = <<>> /\ downloadedB = <<>>
    /\ aState = "no" /\ bState = "no"
    /\ bQueue = <<>>
    /\ dl = [ok |-> 0, failed |-> FALSE, last |-> "none"]
    /\ ui = 0 /\ uploaded = <<>> /\ upTries = 0 /\ upFailed = 0
    /\ exDir = {}
    /\ arc = NoArchive

AlertSpec == AlertInit /\ [][Next]_vars

(* ---------------------------------------------------------------------- *)
(* Probe B on its own: a clicked candidate for which no window appeared,   *)
(* with one response captured in the performance log.  The body is any     *)
(* object of one or two fields whose values are strings or objects nested  *)
(* up to MaxDepth levels.                                                  *)
(* ---------------------------------------------------------------------- *)
FieldNames == {"urlhref", "url", "result"}

RECURSIVE Chains(_)
Chains(d) ==
    IF d = 0 THEN {Str(u) : u \in BodyStrings}
    ELSE Chains(d - 1) \cup
         {Dict(<<Field(k, c)>>) : k \in FieldNames, c \in Chains(d - 1)}

Bodies ==
    LET Values == Chains(MaxDepth - 1)
    IN {Dict(<<Field(k, v)>>) : k \in FieldNames, v \in Values}
       \cup {Dict(<<Field(k[1], v[1]), Field(k[2], v[2])>>) :
               k \in {x \in FieldNames \X FieldNames : x[1] # x[2]},
               v \in Values \X Values}

TraceInit ==
    /\ pc = "poll"
    /\ tasks = <<"7">> /\ ti = 1
    /\ results = <<>>
    /\ disk = [d \in Dirs |-> EmptyDir]
    /\ browsers = 0
    /\ dialogs = FALSE
    /\ status = "none" /\ failure = "none"
    /\ workDir = {}
    /\ browserAlive = TRUE /\ driver = TRUE
    /\ wins = [w \in 1..MaxWin |-> None]
    /\ nextWin = 1
    /\ focusWin = MainWin /\ focusFrame = 1
    /\ baseHandles = {MainWin}
    /\ pendingWins = {} /\ pendingResp = {}
    /\ \E b \in Bodies :
         traceBuf = {[resp |-> [url |-> ValidateResponse.url, body |-> b],
                      owner |-> "cur"]}
    /\ nFrames = 1 /\ fi = 1 /\ nCands = 1 /\ ci = 1
    /\ budget = 0
    /\ \E sel \in BOOLEAN :
         cs = [FreshCand EXCEPT
                 !.href = Some([scheme |-> "javascript", host |-> "",
                                stem |-> "void(0)", ext |-> ""]),
                 !.selid = sel, !.clicked = TRUE, !.ran = {"window"},
                 !.preFrame = 1]
    /\ downloadedA = <<>> /\ downloadedB = <<>>
    /\ aState = "running" /\ bState = "no"
    /\ bQueue = <<>>
    /\ dl = [ok |-> 0, failed |-> FALSE, last |-> "none"]
    /\ ui = 0 /\ uploaded = <<>> /\ upTries = 0 /\ upFailed = 0
    /\ exDir = {}
    /\ arc = NoArchive

TraceNext ==
    \/ PollTrace
    \/ TraceDownload
    \/ InspectContainer

TraceSpec == TraceInit /\ [][TraceNext]_vars

(* ---------------------------------------------------------------------- *)
(* Properties of strategy_iframe_popups                                    *)
(* ---------------------------------------------------------------------- *)
\* The candidate in hand has an absolute, attachment-shaped href.
HrefIsFile ==
    /\ cs.href # None
    /\ The(cs.href).scheme = "http"
    /\ The(cs.href).ext \in ATTACH_EXTS

\* The new-window probe of the candidate in hand is over.
PastWindowProbe == pc \in {"poll", "trace_dl", "container", "next"}

\* C1: a candidate whose href is an absolute attachment-shaped URL is never
\* clicked and none of the three probes (new window, trace, container) runs
\* for it, whether its download succeeds or fails.
C1_DirectHrefShortCircuits ==
    HrefIsFile =>
        /\ ~cs.clicked
        /\ cs.ran \subseteq {"direct"}
        /\ cs.polls = 0
        /\ cs.sawWin = None
        /\ pc \in {"direct", "next"}

\* A direct-href candidate whose download failed is left behind unclicked.
C1_Witness ==
    /\ pc = "next"
    /\ HrefIsFile
    /\ "direct" \in cs.ran
    /\ cs.via = "none"

\* C2: when the click of a candidate opened, within the wait, a window whose
\* URL is attachment-shaped and downloadable, and the trace holds a matching
\* response too, the file comes from the new-window probe: the candidate is
\* finished with origin NewWindow, the trace was never polled and the
\* container never inspected.  No browser call of the probe failed in the
\* case described.
C2_NewWindowBeforeTrace ==
    ( /\ PastWindowProbe
      /\ cs.clicked
      /\ cs.curSeen
      /\ cs.spawn # None
      /\ The(cs.spawn).scheme = "http"
      /\ The(cs.spawn).ext \in ATTACH_EXTS
      /\ ~cs.raised
      /\ cs.winDl # "failed"
      /\ (cs.perf # None \/ AcceptedPerf(traceBuf) # {}) )
    => /\ pc = "next"
       /\ cs.via = "NewWindow"
       /\ cs.polls = 0
       /\ cs.ran = {"window"}

\* C3: one candidate adds at most one file, and once a probe has downloaded
\* a file no later probe is attempted for that candidate.
C3_OneFilePerCandidate ==
    /\ cs.appended <= 1
    /\ (cs.via # "none") = (cs.appended = 1)
    /\ cs.via # "none" => pc = "next"
    /\ cs.via = "DirectHref" => cs.ran = {"direct"}
    /\ cs.via = "NewWindow" => cs.ran = {"window"}
    /\ cs.via = "NetworkTrace" => cs.ran = {"window", "trace"}
    /\ aState = "running" => Len(downloadedA) <= MaxTotalCands - budget

\* The window probe found nothing, the trace probe downloaded the file and
\* the candidate is finished although its onclick named a container.
C3_Witness ==
    /\ pc = "next"
    /\ cs.via = "NetworkTrace"
    /\ cs.selid
    /\ cs.ran = {"window", "trace"}

\* C4: once the new-window probe has switched to a spawned window, that
\* window is closed and the focus is back on the handle it was on before the
\* click, whatever happened while the window was read.
C4_SpawnedWindowClosed ==
    (PastWindowProbe /\ cs.sawWin # None) =>
        /\ The(cs.sawWin) \notin handles
        /\ focusWin = cs.preWin

(* ---------------------------------------------------------------------- *)
(* Properties of handle_single_task                                        *)
(* ---------------------------------------------------------------------- *)
\* C5: every browser that was started is quit by the time handle_single_task
\* returns, on every exit path.
C5_BrowserQuitOnReturn == pc = "returned" => ~browserAlive

\* C6: handle_single_task never raises; it ends by returning a result whose
\* status is success, no_content or error.
C6_NeverRaises ==
    /\ pc # "raised"
    /\ pc = "returned" => status \in {"success", "no_content", "error"}

\* C7: when both strategies ran and no file was downloaded, the result is
\* no_content, no upload was attempted and no uploaded name exists.
C7_NoContentNoUpload ==
    (pc \in {"upload", "finally", "returned"} /\ aState = "done"
        /\ downloadedA \o downloadedB = <<>>)
    => /\ status = "no_content"
       /\ upTries = 0
       /\ uploaded = <<>>

\* Both strategies ran, every download they tried failed, and the task
\* returned.
C7_Witness ==
    /\ pc = "returned"
    /\ status = "no_content"
    /\ bState = "done"
    /\ dl.failed

\* C8: strategy_direct_links runs exactly when strategy_iframe_popups has
\* returned and returned no file.
C8_FallbackIffEmptyA ==
    /\ bState # "no" => (aState = "done" /\ downloadedA = <<>>)
    /\ pc \in {"B_scan", "B_dl"} => (aState = "done" /\ downloadedA = <<>>)
    /\ (pc \in {"collect", "upload", "finally", "returned"} /\ aState = "done")
         => (bState = "done") = (downloadedA = <<>>)

\* The first strategy came back empty-handed and the fallback downloaded a
\* file.
C8_Witness ==
    /\ pc = "collect"
    /\ bState = "done"
    /\ downloadedA = <<>>
    /\ downloadedB # <<>>

\* C9: the status error comes only from a failing build_driver or a failing
\* driver.get; reading the title never produces it.
C9_ErrorOnlyFromBuildOrGet ==
    status = "error" => failure \in {"build_driver", "get"}

\* C10: every download is over before the first file is handed to
\* extract_and_upload_file, every file in the list is one whose download
\* returned a path, and a failed download adds no entry.
C10_DownloadsBeforeExtraction ==
    /\ Len(downloadedA \o downloadedB) = dl.ok
    /\ \A i \in 1..Len(downloadedA \o downloadedB) :
         (downloadedA \o downloadedB)[i] \in workDir
    /\ (upTries > 0 \/ uploaded # <<>>) => dl.last = "extract"
    /\ dl.last = "extract" =>
         /\ pc \in {"upload", "finally", "returned"}
         /\ aState = "done"
         /\ bState \in {"no", "done"}
         /\ bQueue = <<>>

\* A download failed, another succeeded, and the file of the latter has been
\* handed to extract_and_upload_file.
C10_Witness ==
    /\ pc = "upload"
    /\ dl.last = "extract"
    /\ dl.failed
    /\ dl.ok = 1
    /\ ui = 2

\* C11: in an iframe with candidates c1..cn every candidate is processed in
\* order, and nothing that happened to an earlier candidate (click failure,
\* alert, probe exception, failed download, exhausted ceiling) keeps a later
\* candidate, or a later iframe, from being processed: when the loop comes
\* to a candidate the session can still reach it, and when it comes to an
\* iframe the session is still on the page that holds it.
C11_BatchContinues ==
    /\ (pc = "cand" /\ ci <= nCands) => ElementReachable
    /\ (pc = "A_frame" /\ fi <= nFrames) => focusWin = MainWin

(* ---------------------------------------------------------------------- *)
(* Properties of extraction and upload                                     *)
(* ---------------------------------------------------------------------- *)
\* C12: an archive that holds N files gets exactly N upload attempts, one
\* per file it holds, and is never uploaded itself, whatever else was
\* downloaded in the task (several archives, repeated names).  The case is
\* the one where the archive expands and every copy goes through.
C12_OneAttemptPerArchiveFile ==
    /\ arc.clean => arc.tried = arc.n
    /\ \A i \in 1..Len(uploaded) :
         IsArchive(uploaded[i].name) =>
            /\ uploaded[i].inner.i # 0
            /\ uploaded[i].inner.arc = uploaded[i].name

(* ---------------------------------------------------------------------- *)
(* Properties of the trace probe                                           *)
(* ---------------------------------------------------------------------- *)
\* The absolute http URLs that fields named urlhref, fileUrl, downloadUrl or
\* url hold, at any depth of a parsed body.
RECURSIVE NamedUrls(_)
NamedUrls(obj) ==
    IF obj.t # "dict" THEN {}
    ELSE UNION { (IF /\ obj.kids[i].k \in {"urlhref", "fileUrl", "downloadUrl", "url"}
                     /\ obj.kids[i].v.t = "str"
                     /\ obj.kids[i].v.s.scheme = "http"
                  THEN {obj.kids[i].v.s} ELSE {})
                 \cup NamedUrls(obj.kids[i].v) : i \in 1..Len(obj.kids) }

\* Every string a parsed body holds.
RECURSIVE StringsOf(_)
StringsOf(obj) ==
    IF obj.t = "str" THEN {obj.s}
    ELSE UNION {StringsOf(obj.kids[i].v) : i \in 1..Len(obj.kids)}

\* Probe B is over for the candidate and took "u": its download is under
\* way or done.
ResolvedByTrace(u) ==
    /\ cs.perf # None
    /\ The(cs.perf).url = u
    /\ pc \in {"trace_dl", "container", "next"}
    /\ pc # "trace_dl" => dl.last = "download"

OneCandidateNoWindow ==
    /\ nFrames = 1
    /\ nCands = 1
    /\ nextWin = 1

\* C14: task 7, one iframe element with handler GetValidateCode('box1'), the
\* click opens no window and the response {"result": {"urlhref":
\* "http://files/a.pdf"}} is captured: the candidate resolves
\* http://files/a.pdf through the trace probe without inspecting the
\* container, a.pdf is downloaded, the direct-link scanner does not run, and
\* with a successful upload the task returns success with the single
\* uploaded name 7<shortTitle>附件a.pdf.  The first conjunct follows the
\* candidate up to the end of its round, the second takes the task from
\* there (a.pdf is the only download of the task) to its result.
C14_ValidateCodeScenario ==
    LET url == [scheme |-> "http", host |-> "files", stem |-> "a", ext |-> ".pdf"]
        file == [stem |-> "a", ext |-> ".pdf"]
    IN /\ ( /\ pc \in {"trace_dl", "container", "next"}
            /\ OneCandidateNoWindow
            /\ ci = 1
            /\ cs.selid /\ cs.clicked
            /\ ValidateResponse \in cs.read
            /\ ~dl.failed )
          => /\ cs.perf # None
             /\ The(cs.perf).url = url
             /\ "container" \notin cs.ran
             /\ pc # "container"
             /\ pc = "next" => /\ cs.via = "NetworkTrace"
                               /\ downloadedA = <<file>>
                               /\ file \in workDir
       /\ ( /\ pc = "returned"
            /\ failure = "none"
            /\ nextWin = 1
            /\ downloadedA = <<file>>
            /\ dl.ok = 1 /\ ~dl.failed
            /\ upTries = 1 /\ Len(uploaded) = 1 )
          => /\ status = "success"
             /\ bState = "no" /\ downloadedB = <<>>
             /\ uploaded = << [task |-> "7", title |-> "<shortTitle>",
                               name |-> file, inner |-> Whole(file)] >>

\* The scenario ran to its end: no window was opened, a.pdf was the one
\* download of the task, and its upload succeeded.
C14_Witness ==
    /\ pc = "returned"
    /\ status = "success"
    /\ nextWin = 1
    /\ dl.ok = 1 /\ ~dl.failed
    /\ downloadedA = << [stem |-> "a", ext |-> ".pdf"] >>
    /\ bState = "no"
    /\ Len(uploaded) = 1 /\ upTries = 1

(* ---------------------------------------------------------------------- *)
(* Properties of strategy_direct_links                                     *)
(* ---------------------------------------------------------------------- *)
\* C15: the direct-link scan deduplicates by absolute URL: the URLs still to
\* be downloaded are pairwise distinct, so no URL is downloaded twice even
\* when several anchors, or an anchor and the raw markup, carry it.
C15_DirectLinksDeduped ==
    \A i, j \in 1..Len(bQueue) : bQueue[i] = bQueue[j] => i = j

(* ---------------------------------------------------------------------- *)
(* Properties of the working directory                                     *)
(* ---------------------------------------------------------------------- *)
\* C16: a second run of the same task starts from an empty working
\* directory: once the purge of lines 611-613 is over, no file that the
\* first run left there remains, so both runs upload the same names.
C16_SecondRunStartsClean ==
    (pc = "build" /\ ti > 1 /\ tasks[ti - 1] = tasks[ti]) => workDir = {}

\* C17: files of the working directory are deleted only by the purge at the
\* start of the task, before the browser is created: every later step, on
\* the success, no-content and error paths alike, leaves in place every file
\* of the directory and of the extraction directories below it.
C17_DeletedOnlyByPurge ==
    [][pc # "start" => (workDir \subseteq workDir' /\ exDir \subseteq exDir')]_vars

\* A task that downloaded two files, uploaded them and returned: the
\* downloads and their renamed copies are all still there.
C17_Witness ==
    /\ pc = "returned"
    /\ status = "success"
    /\ Len(downloaded) = 2
    /\ Len(uploaded) = 2
    /\ \A i \in 1..2 : downloaded[i] \in workDir /\ uploaded[i] \in workDir

\* The files of working directory d as they are on disk now.
DirContent(d) ==
    IF ti >= 1 /\ d = work_dir(tasks[ti]) THEN workDir ELSE disk[d].files

\* C18: tasks with different ids own disjoint working directories, so what
\* a finished task left in its directory (the copies it uploaded) is still
\* there while tasks with other ids are purged, download and upload.
C18_DirectoriesNeverShared ==
    \A j \in 1..Len(results) :
       (\A k \in (j + 1)..ti : tasks[k] # tasks[j]) =>
          \A n \in 1..Len(results[j].uploaded) :
             results[j].uploaded[n] \in DirContent(work_dir(tasks[j]))

(* ---------------------------------------------------------------------- *)
(* Properties of the route                                                 *)
(* ---------------------------------------------------------------------- *)
\* C20: the tasks of a request are processed one at a time in their order:
\* at most one browser is alive at any moment, and once the request is over
\* the details hold one result per task, in the order of the tasks.
C20_OneTaskAtATime ==
    /\ browsers + (IF browserAlive THEN 1 ELSE 0) <= 1
    /\ pc \in {"responded", "crashed"} =>
          /\ Len(results) = Len(tasks)
          /\ \A i \in 1..Len(tasks) : results[i].ID = tasks[i]

(* ---------------------------------------------------------------------- *)
(* Properties of the upload loop                                           *)
(* ---------------------------------------------------------------------- *)
\* C19: a failed upload does not end the task: the list of uploaded names
\* holds exactly the attempts that succeeded, each the name of a copy in the
\* working directory; an archive that expanded and whose copies all went
\* through had an attempt for every file it holds; and a task that returns
\* success has handed every downloaded file to the upload, however many
\* uploads failed.
C19_UploadFailureDoesNotAbort ==
    /\ Len(uploaded) + upFailed = upTries
    /\ \A i \in 1..Len(uploaded) : uploaded[i] \in workDir
    /\ arc.clean => arc.tried >= arc.n
    /\ (pc \in {"finally", "returned"} /\ status = "success") =>
          ui = Len(downloaded) + 1

\* The upload of the first downloaded file, a plain one, failed; the archive
\* downloaded after it was expanded and its file uploaded; the task returned
\* success listing that one name.
C19_Witness ==
    /\ pc = "returned"
    /\ status = "success"
    /\ Len(downloaded) = 2
    /\ ~IsArchive(downloaded[1]) /\ IsArchive(downloaded[2])
    /\ upTries = 2 /\ upFailed = 1
    /\ arc.clean /\ arc.tried = 1
    /\ Len(uploaded) = 1
    /\ uploaded[1].name = downloaded[2]

(* ---------------------------------------------------------------------- *)
(* Properties of waiting                                                   *)
(* ---------------------------------------------------------------------- *)
\* One run of probe B (lines 498-510): between one and PERF_POLL_ITER reads
\* of the log; a log that holds an accepted URL at the first read ends the
\* loop there; the loop ends with a URL exactly when a response it read
\* holds one, and runs to the ceiling otherwise.
PollsToFirstHit ==
    pc = "poll" =>
       /\ cs'.polls \in 1..PERF_POLL_ITER
       /\ AcceptedPerf(traceBuf) # {} => cs'.polls = 1
       /\ (pc' = "trace_dl") =
            (\E r \in cs'.read : perf_found(entry_urls(r)) # None)
       /\ pc' # "trace_dl" => (pc' = "container" /\ cs'.polls = PERF_POLL_ITER)

\* One run of probe A (lines 465-493): the loop is over after the step, with
\* one new handle taken, or with none when no handle outside base_handles
\* showed up before CLICK_NEW_WINDOW_WAIT elapsed.
WindowLoopEnds ==
    pc = "await" =>
       /\ pc' \in {"poll", "next"}
       /\ cs'.picked = "none" => HandlesOf(wins') \ baseHandles = {}

\* Steps strategy_iframe_popups still has to take at most, as a function of
\* where it stands: iframes left (line 412), candidates left in the iframe
\* (line 430), and the place inside the round of the candidate.
StepsOfRound ==
    CASE pc = "cand" -> 7
      [] pc = "click" -> 6
      [] pc = "await" -> 5
      [] pc = "poll" -> 4
      [] pc = "trace_dl" -> 3
      [] pc \in {"container", "direct"} -> 2
      [] pc = "next" -> 1
      [] OTHER -> 0

StepsOfFrame == 8 * (MaxTotalCands + 2)

StepsLeft ==
    CASE pc = "A_frames" -> (MaxFrames + 2) * StepsOfFrame
      [] pc = "A_frame" -> (nFrames - fi + 1) * StepsOfFrame
      [] pc = "A_ret" -> 0
      [] OTHER -> (nFrames - fi) * StepsOfFrame + 8 * (nCands - ci + 1)
                    + StepsOfRound + 1

\* Every step strategy_iframe_popups takes before it returns lowers the
\* number of steps left, which never falls below zero.
ScanAdvances ==
    (aState = "running" /\ aState' = "running") =>
        /\ StepsLeft' < StepsLeft
        /\ StepsLeft' >= 0

\* C21: all waiting in the resolver is bounded.  For every candidate the
\* trace probe reads the performance log at most PERF_POLL_ITER times and
\* stops at the first read that yields an accepted URL; the new-window loop
\* ends at the first new handle or at its ceiling; and
\* strategy_iframe_popups returns after finitely many steps, whatever the
\* frames and candidates and even when no probe ever succeeds: each of its
\* steps lowers a bounded count of the steps left.
C21_WaitingIsBounded ==
    [][ /\ cs.polls <= PERF_POLL_ITER
        /\ PollsToFirstHit
        /\ WindowLoopEnds
        /\ ScanAdvances ]_vars

\* strategy_iframe_popups returned empty-handed after a new window was read
\* and a download was tried and failed.
C21_Witness ==
    /\ pc = "after_A"
    /\ aState = "done"
    /\ downloadedA = <<>>
    /\ nextWin > 1
    /\ dl.failed

(* ---------------------------------------------------------------------- *)
(* Properties of the new-window probe                                      *)
(* ---------------------------------------------------------------------- *)
\* C22: a window the new-window probe takes for the one the click of the
\* candidate opened did not exist when that candidate was clicked.  No
\* window opens between the click and the probe's first look at
\* window_handles, so the handles at the start of the probe are those of
\* the moment of the click.
C22_NewHandleIsNew ==
    [][pc = "await" =>
         \A w \in 1..MaxWin : cs'.sawWin = Some(w) => wins[w] = None]_vars

\* C23: focus is restored before control goes back to the iframe scan:
\* whenever strategy_iframe_popups moves on to the next iframe or returns,
\* the session is on the default top-level content, and once a probe has
\* run for a candidate the session is on the window and the frame in which
\* the remaining candidates of the iframe live.
C23_FocusRestored ==
    /\ (aState = "running" /\ pc \in {"A_frame", "A_ret"}) =>
          focusFrame = TopFrame
    /\ (pc = "next" /\ cs.ran \cap {"window", "trace", "container"} # {}) =>
          /\ focusWin = cs.preWin
          /\ focusFrame = cs.preFrame

(* ---------------------------------------------------------------------- *)
(* Properties of the click                                                 *)
(* ---------------------------------------------------------------------- *)
\* C24: when the click of a candidate raises a modal dialog, the message of
\* the dialog is appended to the messages of the task and the dialog is
\* dismissed, and the round of the candidate goes on as after a normal
\* click: the new-window probe, then the trace probe, then the container
\* probe, each only while no file was found.
C24_AlertRecordedAndDismissed ==
    cs.alert # "none" =>
       /\ cs.alert = "logged"
       /\ pc \in {"await", "poll", "trace_dl", "container", "next"}
       /\ pc \in {"poll", "trace_dl"} => "window" \in cs.ran
       /\ pc = "container" => {"window", "trace"} \subseteq cs.ran
       /\ (pc = "next" /\ cs.via = "none") =>
             cs.ran = {"window", "trace"} \cup
                        (IF cs.selid THEN {"container"} ELSE {})

(* ---------------------------------------------------------------------- *)
(* Properties of the container probe                                       *)
(* ---------------------------------------------------------------------- *)
\* C25: the container probe is the last resort.  It runs for a clicked
\* candidate only after the new-window probe and the trace probe are both
\* over without a file, and only when the onclick named a container; a
\* candidate whose onclick names none ends unresolved with no container
\* lookup; and a link found in the container resolves the candidate only
\* when its download succeeded: the file is the one entry the candidate
\* added and it is in the working directory.
C25_ContainerIsLastResort ==
    /\ pc = "container" =>
          /\ cs.clicked
          /\ {"window", "trace"} \subseteq cs.ran
          /\ cs.via = "none" /\ cs.appended = 0
    /\ "container" \in cs.ran =>
          /\ pc = "next"
          /\ cs.selid /\ cs.clicked
          /\ cs.ran = {"window", "trace", "container"}
          /\ cs.via \in {"none", "DomContainer"}
    /\ (pc = "next" /\ cs.clicked /\ ~cs.selid) =>
          /\ "container" \notin cs.ran
          /\ cs.via # "DomContainer"
    /\ cs.via = "DomContainer" =>
          /\ "container" \in cs.ran
          /\ cs.appended = 1
          /\ downloadedA # <<>>
          /\ downloadedA[Len(downloadedA)] \in workDir
          /\ \E u \in ContainerUrls :
               downloadedA[Len(downloadedA)] = [stem |-> u.stem, ext |-> u.ext]

\* The trace held a URL whose download failed, and the link then found in
\* the container was downloaded: the candidate is resolved by the container.
C25_Witness ==
    /\ pc = "next"
    /\ cs.via = "DomContainer"
    /\ cs.perf # None
    /\ dl.failed
    /\ cs.appended = 1

(* ---------------------------------------------------------------------- *)
(* Properties of the result                                                *)
(* ---------------------------------------------------------------------- *)
\* C26: handle_single_task returns success exactly when at least one
\* download of either strategy succeeded, whatever became of the uploads:
\* with a successful download the status is never no_content or error, and
\* when every upload and every archive expansion failed the task still
\* returns success, with an empty list of uploaded names.
C26_SuccessIffDownloaded ==
    /\ pc = "returned" => ((status = "success") = (dl.ok >= 1))
    /\ (pc \in {"finally", "returned"} /\ dl.ok >= 1) =>
          status \notin {"no_content", "error"}
    /\ (pc = "returned" /\ dl.ok >= 1 /\ upFailed = upTries) =>
          /\ status = "success"
          /\ uploaded = <<>>

\* Two files were downloaded, a plain one whose upload failed and an archive
\* that did not expand: the task returned success and uploaded nothing.
C26_Witness ==
    /\ pc = "returned"
    /\ status = "success"
    /\ dl.ok = 2
    /\ upTries = 1 /\ upFailed = 1
    /\ arc.n > 0 /\ arc.tried = 0 /\ ~arc.clean
    /\ uploaded = <<>>

\* C27: within one task no file is uploaded twice: whatever the candidates
\* and links, several of them resolving to the same URL or to the same
\* local file name included, the uploaded names are pairwise distinct, and
\* no file stands twice in the list handed, entry by entry, to
\* extract_and_upload_file.
C27_NoFileUploadedTwice ==
    /\ \A i, j \in 1..Len(uploaded) : uploaded[i] = uploaded[j] => i = j
    /\ pc \in {"upload", "finally", "returned"} =>
          \A i, j \in 1..Len(downloadedA \o downloadedB) :
             (downloadedA \o downloadedB)[i] = (downloadedA \o downloadedB)[j]
                => i = j

(* ---------------------------------------------------------------------- *)
(* Properties of the performance log                                       *)
(* ---------------------------------------------------------------------- *)
\* C28: a URL that resolves a candidate through the trace probe comes from
\* a response captured after that candidate was clicked, never from one
\* captured during the page load, the trigger clicks or the round of an
\* earlier candidate.
C28_TraceUrlIsFromThisClick ==
    (cs.perf # None /\ cs.via = "NetworkTrace") => The(cs.perf).owner = "cur"

====
